---- MODULE Spec2Model ----
(***************************************************************************)
(* A model of wrappers/Python/CoolProp/Plots/Common.py: the unit           *)
(* conversions (BaseQuantity, SIunits/KSIunits/EURunits), the saturation   *)
(* bounds of Base2DObject and the isoline engine of IsoLine                *)
(* (_get_update_pair, calc_sat_range, calc_range).                         *)
(*                                                                         *)
(* Numbers.  A float is modelled as an integer count of half units, so     *)
(* that 2*k is the whole number k and 2*k+1 is k + 0.5.  Every number an   *)
(* isoline handles is >= 0; not-a-number is the one negative value.  The   *)
(* unit conversions compute with exact fractions instead.                  *)
(*                                                                         *)
(* The EOS backend (AbstractState, CP.generate_update_pair and the         *)
(* CoolProp.i* / *_INPUTS enumerations) is code outside Common.py.  It is  *)
(* modelled from its contract: update sets the state of the handle or      *)
(* raises, keyed_output reads a property of the state last set or raises,  *)
(* and whether a call raises is the environment's choice.                  *)
(***************************************************************************)
EXTENDS Integers, Sequences, FiniteSets, TLC

VARIABLES
    obj,      \* the Base2DObject instances: IsoLine or BasePlot, by identity
    handle,   \* the AbstractState handles: the state each one was last set to
    ret,      \* what the last finished call did: result, exception, warnings, backend calls
    frame,    \* the locals of a calc_range / calc_sat_range call that is in its sample loop
    pending,  \* the objects whose call has not returned or raised yet
    conv      \* the unit conversion being evaluated (BaseQuantity.from_SI / to_SI)

vars == <<obj, handle, ret, frame, pending, conv>>

----------------------------------------------------------------------------
(* Bounds of the model *)

\* longest sweep array (xvals, yvals, Trange, Prange) and largest explicit num
MaxLen == 2

\* stands for the default of num in calc_sat_range, 200 samples
default_num == 3

----------------------------------------------------------------------------
(* The backend's parameter enumeration (CoolProp.iT, ...).  The numbers    *)
(* are opaque to Common.py, which only combines them as 10*y + x; distinct *)
(* one-digit codes stand for them.                                         *)

iT == 1
iP == 2
iQ == 3
iDmass == 4
iHmass == 5
iSmass == 6
iUmass == 7

\* the trivial (state-independent) parameters read by Common.py
iT_critical == 11
iP_critical == 12
iT_triple == 13
iT_min == 14

\* the property identifiers an isoline can hold constant (keys of XY_SWITCH)
HeldProps == {iDmass, iHmass, iP, iSmass, iT, iQ}

(* The backend's input pairs, in the order in which update takes the two   *)
(* values: XY_INPUTS takes X first, then Y.                                *)
InputPairs ==
    << <<"QT_INPUTS", iQ, iT>>,
       <<"PQ_INPUTS", iP, iQ>>,
       <<"PT_INPUTS", iP, iT>>,
       <<"DmassT_INPUTS", iDmass, iT>>,
       <<"HmassT_INPUTS", iHmass, iT>>,
       <<"SmassT_INPUTS", iSmass, iT>>,
       <<"DmassP_INPUTS", iDmass, iP>>,
       <<"HmassP_INPUTS", iHmass, iP>>,
       <<"PSmass_INPUTS", iP, iSmass>>,
       <<"HmassSmass_INPUTS", iHmass, iSmass>>,
       <<"DmassHmass_INPUTS", iDmass, iHmass>>,
       <<"DmassSmass_INPUTS", iDmass, iSmass>>,
       <<"DmassQ_INPUTS", iDmass, iQ>>,
       <<"HmassQ_INPUTS", iHmass, iQ>>,
       <<"QSmass_INPUTS", iQ, iSmass>> >>

PairNo(pair) == CHOOSE n \in 1..Len(InputPairs) : InputPairs[n][1] = pair
PairFirst(pair) == InputPairs[PairNo(pair)][2]
PairSecond(pair) == InputPairs[PairNo(pair)][3]

(* CP.generate_update_pair(key1, value1, key2, value2): the canonical pair *)
(* of the two keys and the two values in the pair's order.                 *)
generate_update_pair(key1, value1, key2, value2) ==
    LET n == CHOOSE m \in 1..Len(InputPairs) :
                 {InputPairs[m][2], InputPairs[m][3]} = {key1, key2}
    IN  IF InputPairs[n][2] = key1
        THEN <<InputPairs[n][1], value1, value2>>
        ELSE <<InputPairs[n][1], value2, value1>>

----------------------------------------------------------------------------
(* The fluid of the handle.  Temperatures and pressures are whole numbers  *)
(* of a unit so small that T_critical * 1e-5 is a whole number too.  On    *)
(* the saturation line p_sat(T) = 2 * T, which puts the critical point on  *)
(* it.                                                                     *)

T_critical == 600000
P_critical == 1200000
T_triple == 300000
T_min == 299988

trivial_keyed_output(key) ==
    CASE key = iT_critical -> T_critical
      [] key = iP_critical -> P_critical
      [] key = iT_triple -> T_triple
      [] key = iT_min -> T_min

\* the state of a handle that no update has set, or that a failed update cleared
Unset == [set |-> FALSE, pair |-> "", v1 |-> 0, v2 |-> 0]

(* What the environment decides about one update call: the inputs are in   *)
(* the fluid's domain and the solver converges ("ok"), or the call raises  *)
(* and the handle keeps the state it had ("raise_kept") or is left without *)
(* a state ("raise_cleared").                                              *)
UpdateOutcomes == {"ok", "raise_kept", "raise_cleared"}

(* AbstractState.update(pair, value1, value2) on a handle in state h. *)
update(h, pair, value1, value2, outcome) ==
    CASE outcome = "ok" -> [set |-> TRUE, pair |-> pair, v1 |-> value1, v2 |-> value2]
      [] outcome = "raise_kept" -> h
      [] outcome = "raise_cleared" -> Unset

(* AbstractState.keyed_output(key) on a handle in state h (h.set holds):   *)
(* the property key of that state.  An input of the pair reads back as     *)
(* given; on the saturation line pressure and temperature determine each   *)
(* other; any other property is a value that depends on the key and on     *)
(* everything the state was set from, and is never a whole number.         *)
keyed_output(h, key) ==
    CASE key = PairFirst(h.pair) -> h.v1
      [] key = PairSecond(h.pair) -> h.v2
      [] key = iP /\ h.pair = "QT_INPUTS" -> 2 * h.v2
      [] key = iT /\ h.pair = "PQ_INPUTS" -> h.v1 \div 2
      [] OTHER -> 1 + 2 * (key + 8 * PairNo(h.pair) + 200 * (h.v1 + 3 * h.v2))

----------------------------------------------------------------------------
(* numpy arrays.  An array has a shape, () or (n,), an element type and    *)
(* its elements; None is the array-valued argument or field that is not    *)
(* set.                                                                    *)

None == [shape |-> "None", dtype |-> "", data |-> <<>>]

\* np.NaN
NaN == -1

\* np.array(v) of one Python float: a float array of shape ()
Scalar(v) == [shape |-> "()", dtype |-> "float", data |-> <<v>>]

\* a.size
Size(a) == Len(a.data)

\* np.resize(a, b.shape): the elements of a, repeated in order up to the size of b
resize(a, b) ==
    [shape |-> b.shape, dtype |-> a.dtype,
     data |-> [k \in 1..Size(b) |-> a.data[((k - 1) % Size(a)) + 1]]]

\* np.empty_like(a): the shape and the element type of a; no element is read before it is set
empty_like(a) ==
    [shape |-> a.shape, dtype |-> a.dtype, data |-> [k \in 1..Size(a) |-> 0]]

\* the indices np.ndenumerate(a) yields, as positions: one, (), for shape (); (0,),...,(n-1,) for (n,)
ndenumerate(a) == 1..Size(a)

(* a[index] for an index of np.ndenumerate(b).  An index (k,) into an      *)
(* array of shape () is an IndexError; the index () into an array of shape *)
(* (n,) is the whole array, not a number.                                  *)
CanIndex(a, b) == ~(a.shape = "()" /\ b.shape = "(n,)")
IsNumber(a, b) == ~(a.shape = "(n,)" /\ b.shape = "()")

\* what an integer array stores for the float v: its whole part
Trunc(v) == 2 * (v \div 2)

\* a[index] = v raises for v = NaN in an integer array
CanStore(a, v) == ~(a.dtype = "int" /\ v = NaN)

\* a after a[index] = v
SetItem(a, k, v) ==
    [a EXCEPT !.data[k] = IF a.dtype = "int" THEN Trunc(v) ELSE v]

\* np.linspace(lo, hi, num): lo, then num - 1 equal steps up to hi
linspace(lo, hi, num) ==
    [shape |-> "(n,)", dtype |-> "float",
     data |-> [k \in 1..num |->
                 IF num = 1 THEN lo ELSE lo + ((k - 1) * (hi - lo)) \div (num - 1)]]

----------------------------------------------------------------------------
(* Base2DObject: the catalog of plots and the fields of an instance.       *)

TS == iT * 10 + iSmass
PH == iP * 10 + iHmass
HS == iHmass * 10 + iSmass
PS == iP * 10 + iSmass
PD == iP * 10 + iDmass
TD == iT * 10 + iDmass
PT == iP * 10 + iT
PU == iP * 10 + iUmass

PLOTS == {TS, PH, HS, PS, PD, TD, PT}

\* Base2DObject.__init__: the default of small
small_inverse == 100000

(* The fields of an instance.  cls tells an IsoLine from a BasePlot, state *)
(* is the identity of the AbstractState handle the instance holds; the     *)
(* state setter derives T_small and P_small from it.  A BasePlot has no    *)
(* i_index, value, x or y: they stay 0 and None.                           *)
Base2DObject(cls, i_index, x_index, y_index, value, state) ==
    [cls |-> cls, i_index |-> i_index, x_index |-> x_index, y_index |-> y_index,
     value |-> value, state |-> state,
     T_small |-> trivial_keyed_output(iT_critical) \div small_inverse,
     P_small |-> trivial_keyed_output(iP_critical) \div small_inverse,
     x |-> None, y |-> None]

\* IsoLine.__init__(i_index, x_index, y_index, value, state)
IsoLine(i_index, x_index, y_index, value, state) ==
    Base2DObject("IsoLine", i_index, x_index, y_index, value, state)

\* BasePlot.__init__(fluid_ref, graph_type): graph_type[1] is the x axis, graph_type[0] the y axis
BasePlot(graph_type, state) ==
    Base2DObject("BasePlot", 0, graph_type % 10, graph_type \div 10, 0, state)

\* the slot of an object that was not constructed
NoObject == Base2DObject("none", 0, 0, 0, 0, 0)

\* PROPERTIES is a class attribute of BasePlot only
HasPROPERTIES(self) == self.cls = "BasePlot"

\* an optional number (smin, smax): absent, or the number
Absent == <<>>
Some(v) == <<v>>

(* The arguments of a call, as the caller gave them: the two arrays of     *)
(* calc_range (xvals, yvals) or calc_sat_range (Trange, Prange), num (0    *)
(* when left to its default), and kind, smin, smax of _get_sat_bounds.     *)
Args(a, b, num) == [a |-> a, b |-> b, num |-> num, kind |-> 0, smin |-> Absent, smax |-> Absent]
BoundsArgs(kind, smin, smax) ==
    [a |-> None, b |-> None, num |-> 0, kind |-> kind, smin |-> smin, smax |-> smax]
NoArgs == Args(None, None, 0)

(* What a call reports: the method and its arguments, the exception it     *)
(* raised ("" when it returned), the numbers and the input pair it         *)
(* returned, the warnings it issued and the calls it made on the backend,  *)
(* in order.                                                               *)
Report(op, args, raised, val, pair, warnings, calls) ==
    [op |-> op, args |-> args, raised |-> raised, val |-> val, pair |-> pair,
     warnings |-> warnings, calls |-> calls]

NoReport == Report("", NoArgs, "", <<>>, "", 0, <<>>)

\* one call on the backend, as recorded: update(pair, v1, v2) or keyed_output(key), and whether it raised
UpdateCall(pair, v1, v2, ok) ==
    [f |-> "update", pair |-> pair, key |-> 0, v1 |-> v1, v2 |-> v2, ok |-> ok]
OutputCall(key, ok) ==
    [f |-> "keyed_output", pair |-> "", key |-> key, v1 |-> 0, v2 |-> 0, ok |-> ok]

(* Base2DObject._get_sat_bounds(kind, smin, smax) on self, whose handle is *)
(* in state h.  The floor of the saturation line is a state of the fluid:  *)
(* the update at it succeeds.  Returns the report and the handle's state.  *)
\* a slip: the smaller of the two taken
max_smaller(a, b) == IF a >= b THEN b ELSE a

max(a, b) == IF a >= b THEN a ELSE b

_get_sat_bounds(self, h, kind, smin, smax) ==
    LET T_floor == max(trivial_keyed_output(iT_triple), trivial_keyed_output(iT_min))
                     + self.T_small
        h1 == update(h, "QT_INPUTS", 0, T_floor, "ok")
        calls == <<UpdateCall("QT_INPUTS", 0, T_floor, TRUE), OutputCall(kind, TRUE)>>
        fluid_min == keyed_output(h1, kind)
        fluid_max == IF kind = iP
                     THEN trivial_keyed_output(iP_critical) - self.P_small
                     ELSE trivial_keyed_output(iT_critical) - self.T_small
        min_ok == smin = Absent \/ (fluid_min < smin[1] /\ smin[1] < fluid_max)
        max_ok == smax = Absent \/ (fluid_min < smax[1] /\ smax[1] < fluid_max)
        sat_min == IF smin # Absent /\ min_ok THEN smin[1] ELSE fluid_min
        sat_max == IF smax # Absent /\ max_ok THEN smax[1] ELSE fluid_max
        warnings == (IF min_ok THEN 0 ELSE 1) + (IF max_ok THEN 0 ELSE 1)
    IN  IF kind # iP /\ kind # iT
        THEN [h |-> h1,
              rep |-> Report("_get_sat_bounds", BoundsArgs(kind, smin, smax), "ValueError", <<>>, "", 0,
                             <<UpdateCall("QT_INPUTS", 0, T_floor, TRUE)>>)]
        ELSE IF ~min_ok /\ ~HasPROPERTIES(self)
        THEN [h |-> h1,
              rep |-> Report("_get_sat_bounds", BoundsArgs(kind, smin, smax), "AttributeError", <<>>, "", 0, calls)]
        ELSE IF ~max_ok /\ ~HasPROPERTIES(self)
        THEN [h |-> h1,
              rep |-> Report("_get_sat_bounds", BoundsArgs(kind, smin, smax), "AttributeError", <<>>, "",
                             0, calls)]
        ELSE [h |-> h1,
              rep |-> Report("_get_sat_bounds", BoundsArgs(kind, smin, smax), "", <<sat_min, sat_max>>, "", warnings, calls)]

----------------------------------------------------------------------------
(* IsoLine *)

(* XY_SWITCH[i][plot]: "False" sweeps the x axis, "True" the y axis,       *)
(* "None" marks an isoline that cannot be calculated.  A plot that is no   *)
(* key of a row (PU, or an axis pair outside the catalog) is a KeyError.   *)
XY_SWITCH_row(i) ==
    CASE i = iDmass -> (TS :> "True" @@ PH :> "True" @@ HS :> "False" @@ PS :> "True"
                        @@ PD :> "None" @@ TD :> "None" @@ PT :> "False")
      [] i = iHmass -> (TS :> "False" @@ PH :> "None" @@ HS :> "None" @@ PS :> "True"
                        @@ PD :> "True" @@ TD :> "False" @@ PT :> "False")
      [] i = iP     -> (TS :> "False" @@ PH :> "None" @@ HS :> "False" @@ PS :> "None"
                        @@ PD :> "None" @@ TD :> "False" @@ PT :> "None")
      [] i = iSmass -> (TS :> "None" @@ PH :> "True" @@ HS :> "None" @@ PS :> "None"
                        @@ PD :> "True" @@ TD :> "False" @@ PT :> "True")
      [] i = iT     -> (TS :> "None" @@ PH :> "True" @@ HS :> "False" @@ PS :> "False"
                        @@ PD :> "False" @@ TD :> "None" @@ PT :> "None")
      [] i = iQ     -> (TS :> "True" @@ PH :> "True" @@ HS :> "True" @@ PS :> "True"
                        @@ PD :> "True" @@ TD :> "True" @@ PT :> "False")

\* a slip in the table: the isobar on the PH plot marked as a sweep of x
XY_SWITCH_isobar_on_PH ==
    [i \in HeldProps |-> IF i = iP THEN PH :> "False" @@ XY_SWITCH_row(i) ELSE XY_SWITCH_row(i)]

\* a slip in the table: the isotherm on the PH plot marked as not computable
XY_SWITCH_no_isotherm_on_PH ==
    [i \in HeldProps |-> IF i = iT THEN PH :> "None" @@ XY_SWITCH_row(i) ELSE XY_SWITCH_row(i)]

XY_SWITCH == [i \in HeldProps |-> XY_SWITCH_row(i)]

\* a slip in the case table: the two swapped rows exchanged
slot_order_rows_exchanged(switch, swap) ==
    CASE switch = "False" /\ ~swap -> <<0, 1, 2>>
      [] switch = "True" /\ ~swap -> <<0, 2, 1>>
      [] switch = "False" /\ swap -> <<1, 2, 0>>
      [] switch = "True" /\ swap -> <<1, 0, 2>>

(* The four cases of lines 336-343: <<ipos, xpos, ypos>>, the positions of *)
(* the held property, of x and of y in the update call.                    *)
slot_order(switch, swap) ==
    CASE switch = "False" /\ ~swap -> <<0, 1, 2>>
      [] switch = "True" /\ ~swap -> <<0, 2, 1>>
      [] switch = "False" /\ swap -> <<1, 0, 2>>
      [] switch = "True" /\ swap -> <<1, 2, 0>>

(* IsoLine._get_update_pair(): the positions of the held property, of x    *)
(* and of y in the update call (0 and 1 are the two inputs, 2 the output)  *)
(* and the input pair, or the exception raised.                            *)
_get_update_pair(self) ==
    LET key == self.y_index * 10 + self.x_index
        switch == XY_SWITCH[self.i_index][key]
        gen == IF switch = "False"
               THEN generate_update_pair(self.i_index, 0, self.x_index, 1)
               ELSE generate_update_pair(self.i_index, 0, self.y_index, 1)
        pair == gen[1]
        out1 == gen[2]
        swap == out1 # 0
    IN  IF key \notin DOMAIN XY_SWITCH[self.i_index]
        THEN Report("_get_update_pair", NoArgs, "KeyError", <<>>, "", 0, <<>>)
        ELSE IF switch = "None"
        THEN Report("_get_update_pair", NoArgs, "ValueError(isoline)", <<>>, "", 0, <<>>)
        ELSE Report("_get_update_pair", NoArgs, "", slot_order(switch, swap), pair, 0, <<>>)

----------------------------------------------------------------------------
(* The sample loops of calc_sat_range and calc_range.  A frame holds the   *)
(* locals of one call: call is the method the caller invoked, op the       *)
(* method whose loop runs (calc_range hands a quality isoline over to      *)
(* calc_sat_range), pc the next step of the loop, k the position of the    *)
(* current index, vals the arrays: <<vals[0], vals[1], vals[2]>> in        *)
(* calc_range and <<one, two, X, Y>> in calc_sat_range.  When the loop     *)
(* runs step by step, oc[k] is what the backend is going to answer at      *)
(* sample k: that depends on the inputs and the fluid, not on the          *)
(* schedule.                                                               *)

Frame(call, op, pc, pair, idxs, vals, args, warnings, calls, raised) ==
    [call |-> call, op |-> op, pc |-> pc, pair |-> pair, idxs |-> idxs, vals |-> vals,
     k |-> 1, args |-> args, warnings |-> warnings, calls |-> calls, raised |-> raised,
     oc |-> <<>>]

NoFrame == Frame("", "", "idle", "", <<>>, <<>>, NoArgs, 0, <<>>, "")

\* a call that raised before (or in) its loop
Raised(f, exc) == [f EXCEPT !.pc = "raised", !.raised = exc]

\* the steps at which a frame calls the backend
Running(f) == f.pc \in {"update", "read", "readX", "readY"}

(* IsoLine.calc_sat_range(Trange, Prange, num), lines 348-365: up to the   *)
(* loop.  m is the machine the call runs on: self, the handle's state h    *)
(* and the frame f.  warnings and call come from calc_range when it hands  *)
(* over.                                                                   *)
calc_sat_range_enter(self, h, Trange, Prange, num, call, args, warnings) ==
    LET bounds == _get_sat_bounds(self, h, iT, Absent, Absent)
        n == IF num = 0 THEN default_num ELSE num
        two == IF Trange # None THEN Trange
               ELSE IF Prange # None THEN resize(Scalar(self.value), Prange)
               ELSE linspace(bounds.rep.val[1], bounds.rep.val[2], n)
        one == IF Trange # None THEN resize(Scalar(self.value), two)
               ELSE IF Prange # None THEN Prange
               ELSE resize(Scalar(self.value), two)
        pair == IF Trange = None /\ Prange # None THEN "PQ_INPUTS" ELSE "QT_INPUTS"
        default == Trange = None /\ Prange = None
        f == Frame(call, "calc_sat_range", "update", pair,
                   <<self.x_index, self.y_index>>,
                   <<one, two, empty_like(one), empty_like(one)>>,
                   args, warnings, IF default THEN bounds.rep.calls ELSE <<>>, "")
    IN  [self |-> self, h |-> IF default THEN bounds.h ELSE h, f |-> f]

\* sorted(zip(order, items)): the item whose order is p, for p = 0, 1, 2
Sorted(order, items) ==
    [p \in 1..3 |-> items[CHOOSE j \in 1..3 : order[j] = p - 1]]

\* a slip: the size of yvals looked at first
sat_num_yvals_first(xvals, yvals) ==
    IF yvals # None THEN Size(yvals)
    ELSE IF xvals # None THEN Size(xvals) ELSE 0

(* The num calc_range hands to calc_sat_range for a quality isoline, lines *)
(* 388-390; 0 leaves num to its default.                                   *)
sat_num(xvals, yvals) ==
    IF xvals # None THEN Size(xvals)
    ELSE IF yvals # None THEN Size(yvals) ELSE 0

\* a slip: the output's slot tested as well, so that both arrays are required
missing_input_any(vals) == vals[1] = None \/ vals[2] = None \/ vals[3] = None

\* the test of line 397: one of the two inputs of the update is not there
missing_input(vals) == vals[1] = None \/ vals[2] = None

(* IsoLine.calc_range(xvals, yvals), lines 384-407: up to the loop. *)
calc_range_enter(self, h, xvals, yvals) ==
    LET args == Args(xvals, yvals, 0)
        num == sat_num(xvals, yvals)
        rep == _get_update_pair(self)
        idxs == Sorted(rep.val, <<self.i_index, self.x_index, self.y_index>>)
        vals == Sorted(rep.val, <<Scalar(self.value), xvals, yvals>>)
        vals0 == IF Size(vals[1]) < Size(vals[2]) THEN resize(vals[1], vals[2]) ELSE vals[1]
        vals1 == IF Size(vals[1]) > Size(vals[2]) THEN resize(vals[2], vals[1]) ELSE vals[2]
        f == Frame("calc_range", "calc_range", "update", rep.pair, idxs,
                   <<vals0, vals1, empty_like(vals0)>>, args, 0, <<>>, "")
        failed == Frame("calc_range", "calc_range", "update", "", <<>>, <<>>, args, 0, <<>>, "")
    IN  IF self.i_index = iQ
        THEN calc_sat_range_enter(self, h, None, None, num, "calc_range", args, 1)
        ELSE IF rep.raised # ""
        THEN [self |-> self, h |-> h, f |-> Raised(failed, rep.raised)]
        ELSE IF missing_input(vals)
        THEN [self |-> self, h |-> h, f |-> Raised(failed, "ValueError(missing)")]
        ELSE [self |-> self, h |-> h, f |-> f]

(* The end of the loop: calc_sat_range line 379, calc_range lines 419-421. *)
\* a slip: only x is assigned at the end of the loop
finish_x_only(m) ==
    LET f == m.f
        xi == CHOOSE p \in 1..3 : f.idxs[p] = m.self.x_index
    IN  [m EXCEPT !.f.pc = "returned",
                  !.self.x = IF f.op = "calc_sat_range" THEN f.vals[3] ELSE f.vals[xi]]

finish(m) ==
    LET f == m.f
        xi == CHOOSE p \in 1..3 : f.idxs[p] = m.self.x_index
        yi == CHOOSE p \in 1..3 : f.idxs[p] = m.self.y_index
    IN  [m EXCEPT !.f.pc = "returned",
                  !.self.x = IF f.op = "calc_sat_range" THEN f.vals[3] ELSE f.vals[xi],
                  !.self.y = IF f.op = "calc_sat_range" THEN f.vals[4] ELSE f.vals[yi]]

\* the next index of the loop, or its end
advance(m) ==
    IF m.f.k < Size(m.f.vals[1]) THEN [m EXCEPT !.f.k = @ + 1, !.f.pc = "update"]
    ELSE finish(m)

\* a loop over no index ends at once
start(m) == IF m.f.pc = "update" /\ Size(m.f.vals[1]) = 0 THEN finish(m) ELSE m

(* calc_range's except clause, lines 412-417: the warning formats both     *)
(* inputs as numbers, then the output is set to NaN.                       *)
calc_range_except(m) ==
    LET f == m.f
    IN  IF ~CanIndex(f.vals[2], f.vals[1])
        THEN [m EXCEPT !.f = Raised(f, "IndexError")]
        ELSE IF ~IsNumber(f.vals[2], f.vals[1])
        THEN [m EXCEPT !.f = Raised(f, "ValueError(format)")]
        ELSE IF ~CanStore(f.vals[3], NaN)
        THEN [m EXCEPT !.f = Raised([f EXCEPT !.warnings = @ + 1], "ValueError(NaN)")]
        ELSE advance([m EXCEPT !.f.warnings = @ + 1,
                               !.f.vals[3] = SetItem(@, f.k, NaN)])

(* calc_sat_range's except clause, lines 371-377. *)
calc_sat_range_except(m) ==
    LET f == m.f
    IN  IF ~CanStore(f.vals[3], NaN)
        THEN [m EXCEPT !.f = Raised([f EXCEPT !.warnings = @ + 1], "ValueError(NaN)")]
        ELSE advance([m EXCEPT !.f.warnings = @ + 1,
                               !.f.vals[3] = SetItem(@, f.k, NaN),
                               !.f.vals[4] = SetItem(@, f.k, NaN)])

except(m) == IF m.f.op = "calc_sat_range" THEN calc_sat_range_except(m) ELSE calc_range_except(m)

\* a slip: a handle that has a state is not set again
update_step_once(m, c) ==
    LET f == m.f
        v1 == f.vals[1].data[f.k]
        v2 == f.vals[2].data[f.k]
        called == [m EXCEPT !.h = update(@, f.pair, v1, v2, c),
                            !.f.calls = Append(@, UpdateCall(f.pair, v1, v2, c = "ok"))]
        next == IF f.op = "calc_sat_range" THEN "readX" ELSE "read"
    IN  IF ~CanIndex(f.vals[2], f.vals[1]) THEN except(m)
        ELSE IF m.h.set THEN [m EXCEPT !.f.pc = next]
        ELSE IF c # "ok" THEN except(called)
        ELSE [called EXCEPT !.f.pc = next]

(* self.state.update(pair, vals[0][index], vals[1][index]), lines 410 and  *)
(* 368; c is the environment's choice of the update's outcome.             *)
update_step(m, c) ==
    LET f == m.f
        v1 == f.vals[1].data[f.k]
        v2 == f.vals[2].data[f.k]
        called == [m EXCEPT !.h = update(@, f.pair, v1, v2, c),
                            !.f.calls = Append(@, UpdateCall(f.pair, v1, v2, c = "ok"))]
    IN  IF ~CanIndex(f.vals[2], f.vals[1]) THEN except(m)
        ELSE IF c # "ok" THEN except(called)
        ELSE [called EXCEPT !.f.pc = IF f.op = "calc_sat_range" THEN "readX" ELSE "read"]

(* vals[2][index] = self.state.keyed_output(idxs[2]), line 411, and the    *)
(* two reads of lines 369-370; c is the environment's choice, and a handle *)
(* without a state has nothing to read.                                    *)
read_step(m, c) ==
    LET f == m.f
        slot == IF f.pc = "readY" THEN 4 ELSE 3
        key == IF f.op = "calc_range" THEN f.idxs[3]
               ELSE IF f.pc = "readX" THEN f.idxs[1] ELSE f.idxs[2]
        ok == m.h.set /\ c = "ok"
        called == [m EXCEPT !.f.calls = Append(@, OutputCall(key, ok))]
        stored == [called EXCEPT !.f.vals[slot] = SetItem(@, f.k, keyed_output(m.h, key))]
    IN  IF ~ok THEN except(called)
        ELSE IF f.pc = "readX" THEN [stored EXCEPT !.f.pc = "readY"]
        ELSE advance(stored)

step(m, c) == IF m.f.pc = "update" THEN update_step(m, c) ELSE read_step(m, c)

(* What the environment decides about one sample: every call succeeds, the *)
(* update raises, or a read raises.                                        *)
SampleOutcomes(op) ==
    IF op = "calc_sat_range"
    THEN {"ok", "raise_kept", "raise_cleared", "x_raise", "y_raise"}
    ELSE {"ok", "raise_kept", "raise_cleared", "read_raise"}

\* the choice for the step at f.pc, given the outcome o of the sample
Choice(f, o) ==
    CASE f.pc = "update" -> IF o \in {"raise_kept", "raise_cleared"} THEN o ELSE "ok"
      [] f.pc = "read" -> IF o = "read_raise" THEN "raise" ELSE "ok"
      [] f.pc = "readX" -> IF o = "x_raise" THEN "raise" ELSE "ok"
      [] f.pc = "readY" -> IF o = "y_raise" THEN "raise" ELSE "ok"

\* the whole loop, run without interruption; oc[k] is the outcome of sample k
RECURSIVE run(_, _)
run(m, oc) ==
    IF Running(m.f)
    THEN CHOOSE r \in {run(m1, oc) : m1 \in {step(m, Choice(m.f, oc[m.f.k]))}} : TRUE
    ELSE m

\* what the finished call reports
ReportOf(f) == Report(f.call, f.args, f.raised, <<>>, f.pair, f.warnings, f.calls)

----------------------------------------------------------------------------
(* The objects, the handles and the inputs of the calls. *)

Objects == {1, 2}
Handles == {1, 2}

DTypes == {"float", "int"}

(* The arrays a caller passes: shape (n,) with 1 <= n <= MaxLen, of floats *)
(* or of integers.  The elements are whole numbers, different at every     *)
(* position and from one argument to the other: base + 2, base + 4, ...    *)
Arrays(base) ==
    {[shape |-> "(n,)", dtype |-> d, data |-> [k \in 1..n |-> base + 2 * k]] :
        d \in DTypes, n \in 1..MaxLen}
Opt(arrays) == arrays \cup {None}

xvalsArgs == Arrays(0)
yvalsArgs == Arrays(20)
TrangeArgs == Arrays(40)
PrangeArgs == Arrays(60)

\* the value an isoline holds its property at
HeldValues == {100}

\* the axis pairs an isoline is built on: the catalog, and PU, which XY_SWITCH does not know
AxisPairs == PLOTS \cup {PU}

IsoLines(state) ==
    {IsoLine(i, g % 10, g \div 10, v, state) : i \in HeldProps, g \in AxisPairs, v \in HeldValues}
BasePlots(state) == {BasePlot(g, state) : g \in PLOTS}

\* a slip: one handle kept for the class, whatever handle an instance was given
self_state_of_class(self) == handle[1]

\* self.state (the property's getter): the handle the instance was given, here its current state
self_state(self) == handle[self.state]

\* the machine a call of object o runs on
Machine(o) == [self |-> obj[o], h |-> self_state(obj[o]), f |-> frame[o]]

\* the machine's state written back; a call that has ended leaves its report and is no longer pending
Commit(o, m) ==
    /\ obj' = [obj EXCEPT ![o] = m.self]
    /\ handle' = [handle EXCEPT ![obj[o].state] = m.h]
    /\ frame' = [frame EXCEPT ![o] = IF Running(m.f) THEN m.f ELSE NoFrame]
    /\ ret' = [ret EXCEPT ![o] = IF Running(m.f) THEN @ ELSE ReportOf(m.f)]
    /\ pending' = IF Running(m.f) THEN pending ELSE pending \ {o}
    /\ UNCHANGED conv

\* no call is in its loop
Idle == \A o \in Objects : frame[o] = NoFrame

\* the outcomes of the samples of a loop that is about to run
OutcomeVectors(f) ==
    [1..(IF Running(f) THEN Size(f.vals[1]) ELSE 0) -> SampleOutcomes(f.op)]

(* iso.calc_range(xvals, yvals), from the call to its return or exception. *)
CalcRange(o) ==
    /\ Idle /\ o \in pending /\ obj[o].cls = "IsoLine"
    /\ \E xvals \in Opt(xvalsArgs), yvals \in Opt(yvalsArgs) :
         \E m \in {start(calc_range_enter(obj[o], self_state(obj[o]), xvals, yvals))} :
           \E oc \in OutcomeVectors(m.f) : \E r \in {run(m, oc)} : Commit(o, r)

\* the arguments calc_sat_range is called with; num is given only when it is used
SatArgs ==
    {Args(T, P, 0) : T \in Opt(TrangeArgs), P \in Opt(PrangeArgs)}
    \cup {Args(None, None, n) : n \in 1..MaxLen}

(* iso.calc_sat_range(Trange, Prange, num), from the call to its return or *)
(* exception.                                                              *)
CalcSatRange(o) ==
    /\ Idle /\ o \in pending /\ obj[o].cls = "IsoLine"
    /\ \E a \in SatArgs :
         \E m \in {start(calc_sat_range_enter(obj[o], self_state(obj[o]),
                                               a.a, a.b, a.num, "calc_sat_range", a, 0))} :
           \E oc \in OutcomeVectors(m.f) : \E r \in {run(m, oc)} : Commit(o, r)

(* iso._get_update_pair() *)
GetUpdatePair(o) ==
    /\ Idle /\ o \in pending /\ obj[o].cls = "IsoLine"
    /\ ret' = [ret EXCEPT ![o] = _get_update_pair(obj[o])]
    /\ pending' = pending \ {o}
    /\ UNCHANGED <<obj, handle, frame, conv>>

\* the bounds of the fluid, as _get_sat_bounds finds them with no hint
FluidBounds(self, kind) == _get_sat_bounds(self, Unset, kind, Absent, Absent).rep.val

\* the hints smin, smax: none, or a number below, on, inside or above the fluid's bounds
Hints(self, kind) ==
    LET b == FluidBounds(self, kind)
    IN  {Absent} \cup {Some(v) : v \in {b[1] - 2, b[1], b[1] + 2, b[2] - 2, b[2], b[2] + 2}}

(* o._get_sat_bounds(kind, smin, smax), on an IsoLine or a BasePlot *)
GetSatBounds(o) ==
    /\ Idle /\ o \in pending /\ obj[o].cls # "none"
    /\ \E kind \in {iT, iP, iDmass} :
         \E smin \in IF kind = iDmass THEN {Absent} ELSE Hints(obj[o], kind),
            smax \in IF kind = iDmass THEN {Absent} ELSE Hints(obj[o], kind) :
           \E r \in {_get_sat_bounds(obj[o], self_state(obj[o]), kind, smin, smax)} :
               /\ ret' = [ret EXCEPT ![o] = r.rep]
               /\ handle' = [handle EXCEPT ![obj[o].state] = r.h]
               /\ pending' = pending \ {o}
               /\ UNCHANGED <<obj, frame, conv>>

NoConv == <<>>

\* an isoline that has computed a saturation curve before: calc_sat_range(Trange) on a healthy backend
Earlier == [shape |-> "(n,)", dtype |-> "float", data |-> <<42, 44>>]
Used(self) ==
    run(start(calc_sat_range_enter(self, Unset, Earlier, None, 0, "calc_sat_range",
                                   Args(Earlier, None, 0), 0)),
        [k \in 1..2 |-> "ok"])

\* one object, an IsoLine (new, or used before) or a BasePlot, on handle 1; it takes one call
Init ==
    /\ \/ \E c \in IsoLines(1) \cup BasePlots(1) :
            /\ obj = [o \in Objects |-> IF o = 1 THEN c ELSE NoObject]
            /\ handle = [h \in Handles |-> Unset]
            /\ ret = [o \in Objects |-> NoReport]
       \/ \E u \in {Used(c) : c \in IsoLines(1)} :
            /\ obj = [o \in Objects |-> IF o = 1 THEN u.self ELSE NoObject]
            /\ handle = [h \in Handles |-> IF h = 1 THEN u.h ELSE Unset]
            /\ ret = [o \in Objects |-> IF o = 1 THEN ReportOf(u.f) ELSE NoReport]
    /\ pending = {1}
    /\ frame = [o \in Objects |-> NoFrame]
    /\ conv = NoConv

Next ==
    \E o \in Objects :
        \/ CalcRange(o)
        \/ CalcSatRange(o)
        \/ GetUpdatePair(o)
        \/ GetSatBounds(o)

Spec == Init /\ [][Next]_vars

----------------------------------------------------------------------------
(* Two isoline computations whose loops run step by step: one thread per   *)
(* isoline, and every update and every keyed_output is a step of its own.  *)
(* The isobar sweeps the entropies of xvals on the T-s plot, the quality   *)
(* isoline a range of temperatures or of pressures on the PH plot; the two *)
(* isolines were given one handle, or one handle each.                     *)

ParValues == <<100, 102>>
Isobar(state) == IsoLine(iP, iSmass, iT, ParValues[1], state)
Isoquality(state) == IsoLine(iQ, iHmass, iP, ParValues[2], state)

\* the arrays of floats among a set of arrays
Floats(arrays) == {a \in arrays : a.dtype = "float"}

\* the arguments of the call of object o
ParArgs(o) ==
    IF obj[o].i_index = iQ
    THEN {Args(T, None, 0) : T \in Floats(TrangeArgs)} \cup {Args(None, P, 0) : P \in Floats(PrangeArgs)}
    ELSE {Args(x, None, 0) : x \in Floats(xvalsArgs)}

(* What the backend is going to answer at each sample of the loop of f:    *)
(* every call succeeds, the update raises and leaves the handle without a  *)
(* state, or the last read raises.                                         *)
ParOutcomes(f) ==
    [1..(IF Running(f) THEN Size(f.vals[1]) ELSE 0) ->
        {"ok", "raise_cleared", IF f.op = "calc_sat_range" THEN "y_raise" ELSE "read_raise"}]

\* the call of object o, up to its loop
ParEnter(self, h, a) ==
    IF self.i_index = iQ
    THEN calc_sat_range_enter(self, h, a.a, a.b, a.num, "calc_sat_range", a, 0)
    ELSE calc_range_enter(self, h, a.a, a.b)

(* The thread of object o calls calc_range or calc_sat_range and gets to   *)
(* the loop.                                                               *)
ParCall(o) ==
    /\ o \in pending /\ frame[o] = NoFrame
    /\ \E a \in ParArgs(o) :
         \E m \in {start(ParEnter(obj[o], self_state(obj[o]), a))} :
           \E oc \in ParOutcomes(m.f) : Commit(o, [m EXCEPT !.f.oc = oc])

(* The thread of object o calls self.state.update (line 410 or 368); when  *)
(* it raises, the except clause runs with it.                              *)
ParUpdate(o) ==
    /\ frame[o].pc = "update"
    /\ \E m \in {update_step(Machine(o), Choice(frame[o], frame[o].oc[frame[o].k]))} : Commit(o, m)

(* The thread of object o calls self.state.keyed_output (line 411, 369 or  *)
(* 370) and stores the answer.                                             *)
ParRead(o) ==
    /\ frame[o].pc \in {"read", "readX", "readY"}
    /\ \E m \in {read_step(Machine(o), Choice(frame[o], frame[o].oc[frame[o].k]))} : Commit(o, m)

\* the isobar is object 1, the quality isoline object 2; they share handle 1 or not
InitPar ==
    /\ \E h \in Handles : obj = <<Isobar(1), Isoquality(h)>>
    /\ handle = [h \in Handles |-> Unset]
    /\ ret = [o \in Objects |-> NoReport]
    /\ frame = [o \in Objects |-> NoFrame]
    /\ pending = Objects
    /\ conv = NoConv

NextPar == \E o \in Objects : ParCall(o) \/ ParUpdate(o) \/ ParRead(o)

SpecPar == InitPar /\ [][NextPar]_vars

----------------------------------------------------------------------------
(* Quantities and unit systems.  A number is a fraction <<n, d>> in lowest *)
(* terms with d > 0, so that the arithmetic of from_SI and to_SI is exact. *)

RECURSIVE gcd(_, _)
gcd(a, b) == IF b = 0 THEN a ELSE gcd(b, a % b)
abs(a) == IF a < 0 THEN -a ELSE a

\* the fraction n / d (d # 0) in lowest terms
Frac(n, d) ==
    LET g == gcd(abs(n), abs(d))
        sign == IF d < 0 THEN -1 ELSE 1
    IN  <<sign * (n \div g), sign * (d \div g)>>

RAdd(a, b) == Frac(a[1] * b[2] + b[1] * a[2], a[2] * b[2])
RSub(a, b) == Frac(a[1] * b[2] - b[1] * a[2], a[2] * b[2])
RMul(a, b) == Frac(a[1] * b[1], a[2] * b[2])
RDiv(a, b) == Frac(a[1] * b[2], a[2] * b[1])

\* BaseQuantity.__init__(add_SI, mul_SI, off_SI); the labels of a BaseDimension take no part in a conversion
BaseQuantity(add_SI, mul_SI, off_SI) == [add_SI |-> add_SI, mul_SI |-> mul_SI, off_SI |-> off_SI]

\* BaseQuantity.from_SI(value)
from_SI(self, value) == RAdd(RMul(RAdd(value, self.off_SI), self.mul_SI), self.add_SI)

\* a slip of sign: add_SI added once more instead of taken off
to_SI_add_again(self, value) == RSub(RDiv(RAdd(value, self.add_SI), self.mul_SI), self.off_SI)

\* BaseQuantity.to_SI(value)
to_SI(self, value) == RSub(RDiv(RSub(value, self.add_SI), self.mul_SI), self.off_SI)

\* UnitSystem.dimensions: the seven dimensions, by the property they measure
Dimensions == {iDmass, iHmass, iP, iSmass, iT, iUmass, iQ}

\* SIunits(): every dimension is BaseDimension(add_SI=0.0, mul_SI=1.0, off_SI=0.0)
SIunits == [d \in Dimensions |-> BaseQuantity(<<0, 1>>, <<1, 1>>, <<0, 1>>)]

\* KSIunits(): SIunits with mul_SI = 1e-3 for H, P, S and U
KSIunits ==
    [SIunits EXCEPT ![iHmass].mul_SI = <<1, 1000>>, ![iP].mul_SI = <<1, 1000>>,
                    ![iSmass].mul_SI = <<1, 1000>>, ![iUmass].mul_SI = <<1, 1000>>]

\* EURunits(): KSIunits with mul_SI = 1e-5 for P and add_SI = -273.15 for T
EURunits ==
    [KSIunits EXCEPT ![iP].mul_SI = <<1, 100000>>, ![iT].add_SI = <<-5463, 20>>]

UnitSystems == [SI |-> SIunits, KSI |-> KSIunits, EUR |-> EURunits]

\* the longest chain of conversions applied to one number
MaxChain == 2

(* The numbers converted: zero, whole numbers of either sign, fractions,   *)
(* the ice point in K and in degrees Celsius.                              *)
Numbers == {<<0, 1>>, <<1, 1>>, <<-40, 1>>, <<1, 3>>, <<-5, 2>>, <<5463, 20>>, <<12345, 1>>}

(* conv: a dimension of a unit system and the numbers it has converted:    *)
(* vals[1] is the caller's number, vals[k + 1] what ops[k] made of vals[k] *)
Conversion(units, dim, ops, vals) == [units |-> units, dim |-> dim, ops |-> ops, vals |-> vals]

\* the conversions a new call may continue: the one under way, or any number on any dimension
Open ==
    IF conv # NoConv THEN {conv}
    ELSE {Conversion(u, d, <<>>, <<x>>) : u \in DOMAIN UnitSystems, d \in Dimensions, x \in Numbers}

(* dimension.from_SI(value): value is a new number, or the result of the   *)
(* to_SI before it (a number is converted and converted back).             *)
FromSI ==
    \E c \in Open :
        /\ Len(c.ops) < MaxChain
        /\ c.ops # <<>> => c.ops[Len(c.ops)] = "to_SI"
        /\ conv' = [c EXCEPT !.ops = Append(@, "from_SI"),
                             !.vals = Append(@, from_SI(UnitSystems[c.units][c.dim], c.vals[Len(c.vals)]))]
        /\ UNCHANGED <<obj, handle, ret, frame, pending>>

(* dimension.to_SI(value): value is a new number, or the result of the     *)
(* from_SI before it.                                                      *)
ToSI ==
    \E c \in Open :
        /\ Len(c.ops) < MaxChain
        /\ c.ops # <<>> => c.ops[Len(c.ops)] = "from_SI"
        /\ conv' = [c EXCEPT !.ops = Append(@, "to_SI"),
                             !.vals = Append(@, to_SI(UnitSystems[c.units][c.dim], c.vals[Len(c.vals)]))]
        /\ UNCHANGED <<obj, handle, ret, frame, pending>>

\* no isoline takes part in a conversion
InitUnits ==
    /\ obj = [o \in Objects |-> NoObject]
    /\ handle = [h \in Handles |-> Unset]
    /\ ret = [o \in Objects |-> NoReport]
    /\ frame = [o \in Objects |-> NoFrame]
    /\ pending = {}
    /\ conv = NoConv

NextUnits == FromSI \/ ToSI

SpecUnits == InitUnits /\ [][NextUnits]_vars

----------------------------------------------------------------------------
(* Properties. *)

\* the plot key of an object's axes, and its entry in the decision table
PlotKey(self) == self.y_index * 10 + self.x_index
Known(self) == self.i_index \in HeldProps /\ PlotKey(self) \in DOMAIN XY_SWITCH_row(self.i_index)
Switch(self) == XY_SWITCH_row(self.i_index)[PlotKey(self)]
Supported(self) == Known(self) /\ Switch(self) \in {"True", "False"}

\* the axis property that is swept together with the held one, and the one that is computed
SweepProp(self) == IF Switch(self) = "False" THEN self.x_index ELSE self.y_index
OutputProp(self) == IF Switch(self) = "False" THEN self.y_index ELSE self.x_index

\* the backend's pair of two properties, by the properties it names
PairOf(p, q) ==
    InputPairs[CHOOSE n \in 1..Len(InputPairs) : {InputPairs[n][2], InputPairs[n][3]} = {p, q}][1]

\* the backend's canonical order puts the held property second
Swap(self) == PairSecond(PairOf(self.i_index, SweepProp(self))) = self.i_index

(* C1: for every held property and plot whose XY_SWITCH entry is True or   *)
(* False, _get_update_pair returns (ipos, xpos, ypos) = (0,1,2), (0,2,1),  *)
(* (1,0,2), (1,2,0) for (switch, swap) = (F,F), (T,F), (F,T), (T,T), with  *)
(* the backend's pair of the held and the swept property: a permutation of *)
(* 0, 1, 2 that gives the output slot 2 to y when switch is False and to x *)
(* when it is True, never to the held property, and that depends on the    *)
(* held property and the axes alone; the isobar on the T-s plot gets       *)
(* (0, 1, 2, PSmass_INPUTS).                                               *)
C1_UpdatePairTable ==
    \A o \in Objects :
        (ret[o].op = "_get_update_pair" /\ Supported(obj[o])) =>
            LET self == obj[o]
                r == ret[o]
            IN  /\ r.raised = ""
                /\ r.pair = PairOf(self.i_index, SweepProp(self))
                /\ (Switch(self) = "False" /\ ~Swap(self)) => r.val = <<0, 1, 2>>
                /\ (Switch(self) = "True" /\ ~Swap(self)) => r.val = <<0, 2, 1>>
                /\ (Switch(self) = "False" /\ Swap(self)) => r.val = <<1, 0, 2>>
                /\ (Switch(self) = "True" /\ Swap(self)) => r.val = <<1, 2, 0>>
                /\ {r.val[1], r.val[2], r.val[3]} = {0, 1, 2}
                /\ r.val[1] # 2
                /\ r.val[3] = 2 <=> Switch(self) = "False"
                /\ r.val[2] = 2 <=> Switch(self) = "True"
                /\ (self.i_index = iP /\ self.x_index = iSmass /\ self.y_index = iT) =>
                       (r.val = <<0, 1, 2>> /\ r.pair = "PSmass_INPUTS")

\* an isentrope on the PH plot has been resolved: the y axis is swept and the backend swaps
C1_Witness ==
    \E o \in Objects :
        /\ ret[o].op = "_get_update_pair"
        /\ obj[o].i_index = iSmass /\ PlotKey(obj[o]) = PH
        /\ ret[o].val = <<1, 2, 0>> /\ ret[o].pair = "PSmass_INPUTS"

\* the call that object o completes in this step (a call returns or raises)
Completes(o, op) == o \in pending /\ o \notin pending' /\ ret'[o].op = op

\* the backend calls of a report that are updates, in order
Updates(r) == SelectSeq(r.calls, LAMBDA c : c.f = "update")

(* C2: calc_range on an isoline whose held property is not the quality and *)
(* whose XY_SWITCH entry is None or absent fails with a configuration      *)
(* error before any sample is evaluated: the backend sees no update and no *)
(* keyed_output call, its state is as it was, and x and y are unchanged.   *)
C2_UnsupportedFailsEarly ==
    [][\A o \in Objects :
          (Completes(o, "calc_range") /\ obj[o].i_index # iQ /\ ~Supported(obj[o])) =>
              /\ ret'[o].raised \in {"ValueError(isoline)", "KeyError"}
              /\ ret'[o].raised = "ValueError(isoline)" <=> Known(obj[o])
              /\ ret'[o].calls = <<>>
              /\ handle' = handle
              /\ obj'[o] = obj[o]]_vars

\* an isobar on the PH plot that held two curves of two points has refused a sweep
C2_Witness ==
    \E o \in Objects :
        /\ ret[o].op = "calc_range" /\ ret[o].raised = "ValueError(isoline)"
        /\ obj[o].i_index = iP /\ PlotKey(obj[o]) = PH
        /\ ret[o].args.a # None
        /\ Size(obj[o].x) = 2 /\ Size(obj[o].y) = 2

\* a supported isoline of a property other than the quality
Sweepable(self) == self.cls = "IsoLine" /\ self.i_index # iQ /\ Supported(self)

\* of the arguments of a calc_range call, the array of the swept axis and the other one
Required(self, args) == IF Switch(self) = "False" THEN args.a ELSE args.b
Discarded(self, args) == IF Switch(self) = "False" THEN args.b ELSE args.a

\* of the fields of an isoline, the array of the swept axis and the array of the computed one
SweepArray(self) == IF Switch(self) = "False" THEN self.x ELSE self.y
OutputArray(self) == IF Switch(self) = "False" THEN self.y ELSE self.x

\* in a log of backend calls, the place of the k-th update and the calls of sample k
UpdateAt(calls, k) ==
    CHOOSE j \in 1..Len(calls) :
        /\ calls[j].f = "update"
        /\ Cardinality({i \in 1..j : calls[i].f = "update"}) = k
SampleCalls(calls, k) ==
    {j \in UpdateAt(calls, k)..Len(calls) :
        Cardinality({i \in 1..j : calls[i].f = "update"}) = k}
Failed(calls, k) == \E j \in SampleCalls(calls, k) : ~calls[j].ok

\* what the backend answers for key in the state that the logged update u set
ValueAfter(u, key) == keyed_output(update(Unset, u.pair, u.v1, u.v2, "ok"), key)

(* C3: calc_range on a supported isoline, given the array of its swept     *)
(* axis with n >= 1 elements, returns without raising whatever samples the *)
(* backend fails at: it evaluates every index in order, and the output has *)
(* n elements, NaN exactly where the update or the read raised and the     *)
(* backend's value everywhere else.                                        *)
C3_PerSampleIsolation ==
    \A o \in Objects :
        (/\ ret[o].op = "calc_range" /\ Sweepable(obj[o])
         /\ Required(obj[o], ret[o].args) # None) =>
            LET self == obj[o]
                r == ret[o]
                sweep == Required(self, r.args)
                n == Size(sweep)
                ups == Updates(r)
            IN  /\ r.raised = ""
                /\ Len(ups) = n
                /\ Size(OutputArray(self)) = n
                /\ \A k \in 1..n :
                     /\ sweep.data[k] \in {ups[k].v1, ups[k].v2}
                     /\ OutputArray(self).data[k] =
                            IF Failed(r.calls, k) THEN NaN
                            ELSE ValueAfter(ups[k], OutputProp(self))

SatRange(self) == FluidBounds(self, iT)

(* C5: calc_range on a quality isoline, on any plot and whatever arrays it *)
(* is given, does not fail and is calc_sat_range with no Trange or Prange: *)
(* it warns, it takes num from xvals.size, else yvals.size, else the       *)
(* default, and it asks the backend for the held quality at num evenly     *)
(* spaced temperatures of the saturation line, never for an element of     *)
(* xvals or yvals; XY_SWITCH is not consulted, so a plot it has no key for *)
(* is served as well.                                                      *)
C5_QualityDelegates ==
    \A o \in Objects :
        (ret[o].op = "calc_range" /\ obj[o].cls = "IsoLine" /\ obj[o].i_index = iQ) =>
            LET self == obj[o]
                r == ret[o]
                num == IF r.args.a # None THEN Size(r.args.a)
                       ELSE IF r.args.b # None THEN Size(r.args.b)
                       ELSE default_num
                T == linspace(SatRange(self)[1], SatRange(self)[2], num)
                ups == Updates(r)
            IN  /\ r.raised = ""
                /\ r.warnings >= 1
                /\ Len(ups) = num + 1
                /\ r.calls[1] = ups[1] /\ r.calls[2] = OutputCall(iT, TRUE)
                /\ \A k \in 1..num : ups[k + 1].pair = "QT_INPUTS"
                                     /\ ups[k + 1].v1 = self.value
                                     /\ ups[k + 1].v2 = T.data[k]
                /\ Size(self.x) = num /\ Size(self.y) = num

\* a quality isoline on the PU plot, given xvals of one and yvals of two elements, computed one sample
C5_Witness ==
    \E o \in Objects :
        /\ ret[o].op = "calc_range" /\ ret[o].raised = ""
        /\ obj[o].i_index = iQ /\ PlotKey(obj[o]) = PU
        /\ Size(ret[o].args.a) = 1 /\ Size(ret[o].args.b) = 2
        /\ Size(obj[o].x) = 1 /\ Size(obj[o].y) = 1
        /\ ret[o].warnings = 1

(* C6: calc_sat_range holds the quality and sweeps the range it is given:  *)
(* with Trange every sample k calls update(QT_INPUTS, value, Trange[k]);   *)
(* with Prange and no Trange every sample k calls update(PQ_INPUTS,        *)
(* Prange[k], value); with neither it asks _get_sat_bounds for the         *)
(* temperature range and evaluates num evenly spaced temperatures from     *)
(* T_lo to T_hi with QT_INPUTS.  The number of samples is the length of    *)
(* the range, or num.                                                      *)
C6_SatRangePairs ==
    \A o \in Objects :
        (ret[o].op = "calc_sat_range" /\ obj[o].cls = "IsoLine") =>
            LET self == obj[o]
                r == ret[o]
                ups == Updates(r)
                n == IF r.args.num = 0 THEN default_num ELSE r.args.num
                T == linspace(SatRange(self)[1], SatRange(self)[2], n)
            IN  CASE r.args.a # None ->
                       /\ Len(ups) = Size(r.args.a)
                       /\ \A k \in 1..Len(ups) :
                            ups[k] = UpdateCall("QT_INPUTS", self.value, r.args.a.data[k], ups[k].ok)
                  [] r.args.a = None /\ r.args.b # None ->
                       /\ Len(ups) = Size(r.args.b)
                       /\ \A k \in 1..Len(ups) :
                            ups[k] = UpdateCall("PQ_INPUTS", r.args.b.data[k], self.value, ups[k].ok)
                  [] OTHER ->
                       /\ Len(ups) = n + 1
                       /\ r.calls[2] = OutputCall(iT, TRUE)
                       /\ T.data[1] = SatRange(self)[1]
                       /\ n > 1 => T.data[n] = SatRange(self)[2]
                       /\ \A k \in 1..n :
                            ups[k + 1] = UpdateCall("QT_INPUTS", self.value, T.data[k], ups[k + 1].ok)

(* C7: _get_sat_bounds, on any object that has it, does not fail because   *)
(* of a hint: a hint strictly inside the fluid's range is returned as      *)
(* given, with no warning; any other hint is ignored with a warning, and   *)
(* the fluid's bound is returned in its place.                             *)
C7_HintsNeverFail ==
    \A o \in Objects :
        (ret[o].op = "_get_sat_bounds" /\ ret[o].args.kind \in {iT, iP}) =>
            LET r == ret[o]
                b == FluidBounds(obj[o], r.args.kind)
                inside(s) == s # Absent /\ b[1] < s[1] /\ s[1] < b[2]
                ignored(s) == s # Absent /\ ~inside(s)
            IN  /\ r.raised = ""
                /\ r.val[1] = IF inside(r.args.smin) THEN r.args.smin[1] ELSE b[1]
                /\ r.val[2] = IF inside(r.args.smax) THEN r.args.smax[1] ELSE b[2]
                /\ r.warnings = (IF ignored(r.args.smin) THEN 1 ELSE 0)
                                  + (IF ignored(r.args.smax) THEN 1 ELSE 0)

\* what a call wrote into the arrays it assigns: NaN or what the backend answered, as the array stores it
Written(a, k, u, key) ==
    a.data[k] \in {NaN, ValueAfter(u, key), Trunc(ValueAfter(u, key))}

(* C9: x and y are both unset, or both set and of one length.  A call of   *)
(* calc_range or calc_sat_range that returns assigns both: each has one    *)
(* element per sample of that call, and every element is an argument of    *)
(* that call or what the backend answered (or NaN) in that call, whatever  *)
(* the isoline held before.  A call that raises leaves both as they were.  *)
C9_OutputsPaired ==
    [][\A o \in Objects :
          (Completes(o, "calc_range") \/ Completes(o, "calc_sat_range")) =>
              LET self == obj'[o]
                  r == ret'[o]
                  sat == r.op = "calc_sat_range" \/ self.i_index = iQ
                  bounded == r.op = "calc_range" \/ (r.args.a = None /\ r.args.b = None)
                  ups == Updates(r)
                  own == IF sat /\ bounded THEN SubSeq(ups, 2, Len(ups)) ELSE ups
                  n == Len(own)
              IN  /\ (self.x = None) = (self.y = None)
                  /\ self.x # None => Size(self.x) = Size(self.y)
                  /\ r.raised # "" => (self.x = obj[o].x /\ self.y = obj[o].y)
                  /\ r.raised = "" =>
                       /\ Size(self.x) = n /\ Size(self.y) = n
                       /\ sat => \A k \in 1..n : /\ Written(self.x, k, own[k], self.x_index)
                                                 /\ Written(self.y, k, own[k], self.y_index)
                       /\ ~sat => /\ SweepArray(self) = Required(self, r.args)
                                  /\ \A k \in 1..n :
                                       Written(OutputArray(self), k, own[k], OutputProp(self))]_vars

\* a saturation curve over two pressures whose second sample failed: both arrays hold NaN there
C9_Witness ==
    \E o \in Objects :
        /\ ret[o].op = "calc_sat_range" /\ ret[o].raised = ""
        /\ Size(ret[o].args.b) = 2 /\ ret[o].args.a = None
        /\ Size(obj[o].x) = 2 /\ Size(obj[o].y) = 2
        /\ obj[o].x.data[1] # NaN /\ obj[o].y.data[1] # NaN
        /\ obj[o].x.data[2] = NaN /\ obj[o].y.data[2] = NaN

(* C8: in each of the unit systems SI, KSI and EUR and for each of the     *)
(* dimensions D, H, P, S, T, U and Q, from_SI(v) is ((v + off_SI) * mul_SI)*)
(* + add_SI, and to_SI and from_SI undo each other exactly: whichever is   *)
(* applied to the other's result gives back the number the other was       *)
(* given.                                                                  *)
C8_RoundTrip ==
    conv # NoConv =>
        LET q == UnitSystems[conv.units][conv.dim]
        IN  \A k \in 1..Len(conv.ops) :
                /\ conv.ops[k] = "from_SI" =>
                       conv.vals[k + 1] = RAdd(RMul(RAdd(conv.vals[k], q.off_SI), q.mul_SI), q.add_SI)
                /\ (k > 1 /\ conv.ops[k] # conv.ops[k - 1]) => conv.vals[k + 1] = conv.vals[k - 1]

\* 0 degrees Celsius, taken to SI as 273.15 K and back by the temperature of EURunits
C8_Witness ==
    /\ conv # NoConv
    /\ conv.units = "EUR" /\ conv.dim = iT
    /\ conv.ops = <<"to_SI", "from_SI">>
    /\ conv.vals = <<<<0, 1>>, <<5463, 20>>, <<0, 1>>>>

\* the backend calls the other isoline has made so far
OtherCalls(o) ==
    LET other == CHOOSE p \in Objects : p # o
    IN  IF Running(frame[other]) THEN frame[other].calls ELSE ret[other].calls

(* C10: when the two isolines hold distinct handles, every interleaving of *)
(* the updates and reads of their loops gives each isoline what its call   *)
(* gives when it runs alone with the same answers of the backend: the same *)
(* x and y, the same report, and at every sample the backend answered, the *)
(* property of the state that the isoline's own update set.                *)
C10_DistinctHandlesIsolated ==
    [][\A o \in Objects :
          (/\ Completes(o, "calc_range") \/ Completes(o, "calc_sat_range")
           /\ \A p \in Objects : obj[p].cls = "IsoLine"
           /\ obj[1].state # obj[2].state) =>
              LET r == ret'[o]
                  self == obj'[o]
                  alone == run(start(ParEnter(obj[o], Unset, r.args)), frame[o].oc)
                  ups == Updates(r)
              IN  /\ self = alone.self
                  /\ r = ReportOf(alone.f)
                  /\ r.raised = "" =>
                       \A k \in 1..Len(ups) :
                           frame[o].oc[k] = "ok" =>
                               /\ self.x.data[k] = ValueAfter(ups[k], self.x_index)
                               /\ self.y.data[k] = ValueAfter(ups[k], self.y_index)]_vars

\* on one handle, the isobar has read the temperature of a state that the quality isoline's update set
C10_Witness ==
    /\ obj[1].state = obj[2].state
    /\ ret[1].op = "calc_range" /\ ret[1].raised = "" /\ 1 \notin pending
    /\ \E k \in 1..Size(obj[1].y) :
         /\ Updates(ret[1])[k].ok
         /\ obj[1].y.data[k] # NaN
         /\ obj[1].y.data[k] # ValueAfter(Updates(ret[1])[k], iT)
         /\ \E j \in 1..Len(OtherCalls(1)) :
              /\ OtherCalls(1)[j].f = "update" /\ OtherCalls(1)[j].ok
              /\ obj[1].y.data[k] = ValueAfter(OtherCalls(1)[j], iT)

\* in a log of backend calls, the update that the read at place j follows, if any
HasUpdateBefore(calls, j) == \E i \in 1..(j - 1) : calls[i].f = "update"
UpdateBefore(calls, j) ==
    CHOOSE i \in 1..(j - 1) :
        calls[i].f = "update" /\ \A l \in (i + 1)..(j - 1) : calls[l].f # "update"

\* the state a successful logged update sets
StateAfter(u) == update(Unset, u.pair, u.v1, u.v2, "ok")

\* what an array of a's element type keeps of the number v
Stored(a, v) == IF a.dtype = "int" THEN Trunc(v) ELSE v

(* C11: in calc_range, calc_sat_range and _get_sat_bounds every            *)
(* keyed_output follows, in the same call, an update that succeeded, made  *)
(* with the isoline's own inputs (the held value, or quality 0 at the      *)
(* floor of the saturation line), with nothing but reads in between.  So   *)
(* what a call computes is the property of the states its own updates set, *)
(* whatever state the handle was in before, and a call whose last update   *)
(* succeeded leaves the handle in the state of that update; a call that    *)
(* makes no update leaves the handle as it was.                            *)
C11_SetThenRead ==
    [][\A o \in Objects :
          (\/ Completes(o, "calc_range") \/ Completes(o, "calc_sat_range")
           \/ Completes(o, "_get_sat_bounds")) =>
              LET self == obj'[o]
                  r == ret'[o]
                  calls == r.calls
                  ups == Updates(r)
                  h == handle'[self.state]
                  reads == {j \in 1..Len(calls) : calls[j].f = "keyed_output"}
                  sat == r.op # "_get_sat_bounds" /\ (r.op = "calc_sat_range" \/ self.i_index = iQ)
                  bounded == r.op = "calc_range" \/ (r.args.a = None /\ r.args.b = None)
                  own == IF sat /\ bounded THEN SubSeq(ups, 2, Len(ups)) ELSE ups
              IN  /\ \A j \in reads :
                       /\ HasUpdateBefore(calls, j)
                       /\ calls[UpdateBefore(calls, j)].ok
                       /\ \A l \in (UpdateBefore(calls, j) + 1)..(j - 1) : calls[l].ok
                  /\ \A k \in 1..Len(ups) :
                       \/ self.value \in {ups[k].v1, ups[k].v2}
                       \/ ups[k] = UpdateCall("QT_INPUTS", 0, FluidBounds(self, iT)[1], TRUE)
                  /\ (ups # <<>> /\ ups[Len(ups)].ok) => h = StateAfter(ups[Len(ups)])
                  /\ ups = <<>> => handle' = handle
                  /\ (r.op = "_get_sat_bounds" /\ r.raised = "" /\ r.args.smin = Absent) =>
                         r.val[1] = ValueAfter(ups[1], r.args.kind)
                  /\ (r.op # "_get_sat_bounds" /\ r.raised = "") =>
                       \A k \in 1..Len(own) :
                           /\ self.x.data[k] \in {NaN, Stored(self.x, ValueAfter(own[k], self.x_index))}
                           /\ self.y.data[k] \in {NaN, Stored(self.y, ValueAfter(own[k], self.y_index))}
                           /\ ~Failed(calls, IF sat /\ bounded THEN k + 1 ELSE k) =>
                                  (self.x.data[k] # NaN /\ self.y.data[k] # NaN)]_vars

\* an isobar has swept two entropies: each temperature is read from the state its own update set, and the handle is left in the last one
C11_Witness ==
    \E o \in Objects :
        /\ ret[o].op = "calc_range" /\ ret[o].raised = ""
        /\ obj[o].i_index = iP /\ PlotKey(obj[o]) = TS
        /\ Len(ret[o].calls) = 4
        /\ \A j \in 1..4 : ret[o].calls[j].ok
        /\ obj[o].y.data[1] = ValueAfter(ret[o].calls[1], iT)
        /\ obj[o].y.data[2] = ValueAfter(ret[o].calls[3], iT)
        /\ handle[obj[o].state] = StateAfter(ret[o].calls[3])

\* the floor of the saturation line: the larger of T_triple and T_min, and T_critical * epsilon above it
SatFloor ==
    (IF T_triple >= T_min THEN T_triple ELSE T_min) + T_critical \div small_inverse

(* C12: with no hints, _get_sat_bounds for T sets the saturated liquid     *)
(* (quality 0) at max(T_triple, T_min) + T_small and returns the           *)
(* temperature read back from it and T_critical - T_small, where T_small   *)
(* is T_critical * 1e-5: the first is below the second, and the second is  *)
(* below the critical temperature.  For P it returns the saturation        *)
(* pressure of that same state and P_critical - P_small.                   *)
C12_FluidBounds ==
    \A o \in Objects :
        (/\ ret[o].op = "_get_sat_bounds" /\ ret[o].args.kind \in {iT, iP}
         /\ ret[o].args.smin = Absent /\ ret[o].args.smax = Absent) =>
            LET r == ret[o]
                set == UpdateCall("QT_INPUTS", 0, SatFloor, TRUE)
            IN  /\ r.raised = "" /\ r.warnings = 0
                /\ r.calls = <<set, OutputCall(r.args.kind, TRUE)>>
                /\ handle[obj[o].state] = StateAfter(set)
                /\ r.args.kind = iT =>
                       /\ r.val = <<SatFloor, T_critical - T_critical \div small_inverse>>
                       /\ r.val[1] < r.val[2] /\ r.val[2] < T_critical
                /\ r.args.kind = iP =>
                       /\ r.val = <<ValueAfter(set, iP), P_critical - P_critical \div small_inverse>>
                       /\ r.val[2] < P_critical

\* an isoline has asked for the temperature bounds with no hint and got the floor and the ceiling
C12_Witness ==
    \E o \in Objects :
        /\ obj[o].cls = "IsoLine"
        /\ ret[o].op = "_get_sat_bounds" /\ ret[o].args.kind = iT
        /\ ret[o].args.smin = Absent /\ ret[o].args.smax = Absent
        /\ ret[o].val = <<300006, 599994>>

\* the two axis properties of a plot
Axes(plot) == {plot % 10, plot \div 10}

(* C13: XY_SWITCH has an entry for each of the six held properties         *)
(* (density, enthalpy, pressure, entropy, temperature, quality) on each of *)
(* the seven plots of the catalog; the entry is None exactly when the held *)
(* property is an axis of the plot, and True or False otherwise, as are    *)
(* all seven entries of the quality.  So on a plot of the catalog          *)
(* _get_update_pair refuses an isoline exactly when it holds an axis.      *)
C13_TableComplete ==
    /\ DOMAIN XY_SWITCH = {iDmass, iHmass, iP, iSmass, iT, iQ}
    /\ PLOTS = {TS, PH, HS, PS, PD, TD, PT} /\ Cardinality(PLOTS) = 7
    /\ \A i \in DOMAIN XY_SWITCH :
         /\ PLOTS \subseteq DOMAIN XY_SWITCH[i]
         /\ \A plot \in PLOTS :
              /\ XY_SWITCH[i][plot] \in {"True", "False", "None"}
              /\ XY_SWITCH[i][plot] = "None" <=> i \in Axes(plot)
    /\ \A plot \in PLOTS : XY_SWITCH[iQ][plot] \in {"True", "False"}
    /\ \A o \in Objects :
         (ret[o].op = "_get_update_pair" /\ PlotKey(obj[o]) \in PLOTS) =>
             /\ ret[o].raised \in {"", "ValueError(isoline)"}
             /\ ret[o].raised = "ValueError(isoline)"
                    <=> obj[o].i_index \in {obj[o].x_index, obj[o].y_index}

\* an isochore on the TD plot has been refused: the density is the plot's x axis
C13_Witness ==
    \E o \in Objects :
        /\ ret[o].op = "_get_update_pair" /\ ret[o].raised = "ValueError(isoline)"
        /\ obj[o].i_index = iDmass /\ PlotKey(obj[o]) = TD
        /\ XY_SWITCH[iDmass][TD] = "None"

\* the number of samples a calc_sat_range call is asked for
SatSamples(args) ==
    IF args.a # None THEN Size(args.a)
    ELSE IF args.b # None THEN Size(args.b)
    ELSE IF args.num = 0 THEN default_num ELSE args.num

(* C14: calc_sat_range evaluates every index of its range and returns; for *)
(* every index k, x[k] and y[k] are both what the backend answered after   *)
(* the update of sample k succeeded, or both NaN: NaN exactly when the     *)
(* update or one of the two reads of sample k raised, so that a y read     *)
(* that fails takes the x of its sample with it.                           *)
C14_NeverHalfPopulated ==
    \A o \in Objects :
        (ret[o].op = "calc_sat_range" /\ obj[o].cls = "IsoLine") =>
            LET self == obj[o]
                r == ret[o]
                n == SatSamples(r.args)
                first == IF r.args.a = None /\ r.args.b = None THEN 1 ELSE 0
                ups == Updates(r)
            IN  /\ r.raised = ""
                /\ Len(ups) = n + first
                /\ Size(self.x) = n /\ Size(self.y) = n
                /\ \A k \in 1..n :
                     IF Failed(r.calls, k + first)
                     THEN self.x.data[k] = NaN /\ self.y.data[k] = NaN
                     ELSE /\ self.x.data[k] = ValueAfter(ups[k + first], self.x_index)
                          /\ self.y.data[k] = ValueAfter(ups[k + first], self.y_index)

(* C15: for kind T or P and every combination of hints (each absent,       *)
(* inside, on a bound of or outside the fluid's range), when fluid_min <   *)
(* fluid_max, the two numbers _get_sat_bounds returns lie in [fluid_min,   *)
(* fluid_max] and the first is not above the second.                       *)
C15_BoundsOrdered ==
    \A o \in Objects :
        (/\ ret[o].op = "_get_sat_bounds" /\ ret[o].args.kind \in {iT, iP}
         /\ ret[o].raised = "") =>
            LET r == ret[o]
                b == FluidBounds(obj[o], r.args.kind)
            IN  b[1] < b[2] =>
                    /\ b[1] <= r.val[1] /\ r.val[1] <= b[2]
                    /\ b[1] <= r.val[2] /\ r.val[2] <= b[2]
                    /\ r.val[1] <= r.val[2]

====
